---- MODULE Spec2Model ----
(***************************************************************************)
(* Express + Sequelize authentication backend: POST /auth/signup,          *)
(* POST /auth/signin, GET /protected behind authMiddleware.                *)
(*                                                                         *)
(* Strings that the code takes apart are modelled by their parts:          *)
(*   - an Authorization header is the list of its space-separated parts    *)
(*     (what split(" ") returns), or absent;                               *)
(*   - a JWT is its payload and its signature segment, the signature being *)
(*     the pair (key, signed payload) of an ideal HMAC; any other token    *)
(*     text ("garbage", "") is a raw string;                               *)
(*   - a bcrypt hash is the pair (salt, hashed plaintext).                 *)
(* Time is in seconds, as jsonwebtoken reads it.                           *)
(***************************************************************************)
EXTENDS Integers, Sequences, FiniteSets, TLC

VARIABLES
    users,   \* the rows of table "users"
    clock,   \* Math.floor(Date.now() / 1000)
    ticks,   \* how many times the clock advanced
    nreq,    \* how many requests arrived
    reqs,    \* per connection, the request awaiting the database
    last,    \* the request that completed last, with its response
    issued,  \* the access tokens the clients received
    auth,      \* the browser: state.auth of the Redux store
    cookieJar, \* the browser: the cookies behind document.cookie
    action,    \* the browser: the action dispatched last, and the state before it
    app,       \* the browser: which frontend the tab runs ("redux", "context")
    ctx,       \* the browser: state of UserProvider (Context frontend)
    location,  \* the browser: the path the router shows
    calls,     \* the browser: handleSubmit calls awaiting their request
    register,  \* the browser: local state of the Register page
    wire       \* the network: requests sent and not yet arrived at the server

server == <<users, nreq, reqs, last, issued>>
pages == <<app, ctx, location, calls, register, wire>>
browser == <<auth, cookieJar, action, pages>>
vars == <<users, clock, ticks, nreq, reqs, last, issued, auth, cookieJar, action,
          app, ctx, location, calls, register, wire>>

----------------------------------------------------------------------------
(* Bounds of the model *)

MaxTicks == 2
MaxRequests == 3

Slots == {1, 2}
Usernames == {"alice"}
Emails == {"alice@x.com", "bob@x.com"}
Passwords == {"secret123", "other456"}
Salts == {"salt1"}
Schemes == {"Bearer", "Token"}
AttackerKey == "attacker-key"

(* Program constants *)

jwt_token_secret == "1234"
signin_jwt_token_secret == "1234"
expiresIn == 3600
ClockSteps == {1, expiresIn - 1}

Bodies == [username : Usernames, email : Emails, password : Passwords]

----------------------------------------------------------------------------
(* bcryptjs *)

hashSync(password, salt) == [salt |-> salt, of |-> password]

compareSync(password, hash) == hash.of = password

----------------------------------------------------------------------------
(* jsonwebtoken *)

HS256(payload, secret) == [key |-> secret, over |-> payload]

\* jwt.sign with expiresIn: "1d"
jwtSignOneDay(claims, secret, now) ==
    LET payload == [email |-> claims.email, iat |-> now, exp |-> now + 86400]
    IN  [kind |-> "jwt", payload |-> payload, sig |-> HS256(payload, secret)]

jwtSign(claims, secret, now) ==
    LET payload == [email |-> claims.email, iat |-> now, exp |-> now + expiresIn]
    IN  [kind |-> "jwt", payload |-> payload, sig |-> HS256(payload, secret)]

JwtError(name, message) == [ok |-> FALSE, name |-> name, message |-> message, payload |-> {}]

\* The signature segment of a token whose third segment is empty
NoSignature == [empty |-> TRUE]

\* jwt.verify with the expiry test written as now > exp
jwtVerifyOffByOne(token, secret, now) ==
    IF token = {} THEN JwtError("JsonWebTokenError", "jwt must be provided")
    ELSE LET t == CHOOSE x \in token : TRUE IN
         IF t.kind = "raw"
         THEN IF t.text = ""
              THEN JwtError("JsonWebTokenError", "jwt must be provided")
              ELSE JwtError("JsonWebTokenError", "jwt malformed")
         ELSE IF t.kind = "invalid"
              THEN JwtError("JsonWebTokenError", "invalid token")
         ELSE IF "unparsable" \in DOMAIN t.payload
              THEN JwtError("SyntaxError", "Unexpected token in JSON")
         ELSE IF t.sig = NoSignature
              THEN JwtError("JsonWebTokenError", "jwt signature is required")
         ELSE IF t.sig # HS256(t.payload, secret)
              THEN JwtError("JsonWebTokenError", "invalid signature")
         ELSE IF now > t.payload.exp
              THEN JwtError("TokenExpiredError", "jwt expired")
         ELSE [ok |-> TRUE, name |-> "", message |-> "", payload |-> {t.payload}]

\* jwt.verify called with { ignoreExpiration: true }
jwtVerifyIgnoreExpiration(token, secret, now) ==
    IF token = {} THEN JwtError("JsonWebTokenError", "jwt must be provided")
    ELSE LET t == CHOOSE x \in token : TRUE IN
         IF t.kind = "raw"
         THEN IF t.text = ""
              THEN JwtError("JsonWebTokenError", "jwt must be provided")
              ELSE JwtError("JsonWebTokenError", "jwt malformed")
         ELSE IF t.kind = "invalid"
              THEN JwtError("JsonWebTokenError", "invalid token")
         ELSE IF "unparsable" \in DOMAIN t.payload
              THEN JwtError("SyntaxError", "Unexpected token in JSON")
         ELSE IF t.sig = NoSignature
              THEN JwtError("JsonWebTokenError", "jwt signature is required")
         ELSE IF t.sig # HS256(t.payload, secret)
              THEN JwtError("JsonWebTokenError", "invalid signature")
         ELSE [ok |-> TRUE, name |-> "", message |-> "", payload |-> {t.payload}]

\* jwt.decode in place of jwt.verify: the signature is not checked
jwtDecodeOnly(token, secret, now) ==
    IF token = {} THEN JwtError("JsonWebTokenError", "jwt must be provided")
    ELSE LET t == CHOOSE x \in token : TRUE IN
         IF t.kind = "raw"
         THEN IF t.text = ""
              THEN JwtError("JsonWebTokenError", "jwt must be provided")
              ELSE JwtError("JsonWebTokenError", "jwt malformed")
         ELSE IF t.kind = "invalid"
              THEN JwtError("JsonWebTokenError", "invalid token")
         ELSE IF "unparsable" \in DOMAIN t.payload
              THEN JwtError("SyntaxError", "Unexpected token in JSON")
         ELSE IF now >= t.payload.exp
              THEN JwtError("TokenExpiredError", "jwt expired")
         ELSE [ok |-> TRUE, name |-> "", message |-> "", payload |-> {t.payload}]

\* jwt.verify with the option maxAge: "1m"
jwtVerifyMaxAge(token, secret, now) ==
    IF token = {} THEN JwtError("JsonWebTokenError", "jwt must be provided")
    ELSE LET t == CHOOSE x \in token : TRUE IN
         IF t.kind = "raw"
         THEN IF t.text = ""
              THEN JwtError("JsonWebTokenError", "jwt must be provided")
              ELSE JwtError("JsonWebTokenError", "jwt malformed")
         ELSE IF t.kind = "invalid"
              THEN JwtError("JsonWebTokenError", "invalid token")
         ELSE IF "unparsable" \in DOMAIN t.payload
              THEN JwtError("SyntaxError", "Unexpected token in JSON")
         ELSE IF t.sig = NoSignature
              THEN JwtError("JsonWebTokenError", "jwt signature is required")
         ELSE IF t.sig # HS256(t.payload, secret)
              THEN JwtError("JsonWebTokenError", "invalid signature")
         ELSE IF now >= t.payload.exp
              THEN JwtError("TokenExpiredError", "jwt expired")
         ELSE IF now >= t.payload.iat + 60
              THEN JwtError("TokenExpiredError", "maxAge exceeded")
         ELSE [ok |-> TRUE, name |-> "", message |-> "", payload |-> {t.payload}]

\* jwt.verify(token, secret) at time now; token is {} for undefined, else {t}.
\* The checks run in the library's order: presence, three segments
\* ("jwt malformed"), decoding of the segments ("invalid token" when they
\* do not decode, the SyntaxError of JSON.parse when the payload does not
\* parse), presence of a signature, signature, expiry.
jwtVerify(token, secret, now) ==
    IF token = {} THEN JwtError("JsonWebTokenError", "jwt must be provided")
    ELSE LET t == CHOOSE x \in token : TRUE IN
         IF t.kind = "raw"
         THEN IF t.text = ""
              THEN JwtError("JsonWebTokenError", "jwt must be provided")
              ELSE JwtError("JsonWebTokenError", "jwt malformed")
         ELSE IF t.kind = "invalid"
              THEN JwtError("JsonWebTokenError", "invalid token")
         ELSE IF "unparsable" \in DOMAIN t.payload
              THEN JwtError("SyntaxError", "Unexpected token in JSON")
         ELSE IF t.sig = NoSignature
              THEN JwtError("JsonWebTokenError", "jwt signature is required")
         ELSE IF t.sig # HS256(t.payload, secret)
              THEN JwtError("JsonWebTokenError", "invalid signature")
         ELSE IF now >= t.payload.exp
              THEN JwtError("TokenExpiredError", "jwt expired")
         ELSE [ok |-> TRUE, name |-> "", message |-> "", payload |-> {t.payload}]

----------------------------------------------------------------------------
(* Express response object *)

NewRes == [sent |-> <<>>, attempts |-> <<>>, threw |-> FALSE]

Body(message, accessToken, user) ==
    [message |-> message, accessToken |-> accessToken, user |-> user]

\* res.status(status).json(body): the first call sends the response; a call
\* after the headers were sent throws ERR_HTTP_HEADERS_SENT and sends nothing.
ResJson(res, status, body) ==
    LET r == [status |-> status, body |-> body] IN
    IF res.sent = <<>>
    THEN [res EXCEPT !.sent = <<r>>, !.attempts = Append(@, r)]
    ELSE [res EXCEPT !.attempts = Append(@, r), !.threw = TRUE]

----------------------------------------------------------------------------
(* Authorization header *)

NoHeader == [present |-> FALSE, parts |-> <<>>]

Header(parts) == [present |-> TRUE, parts |-> parts]

\* !accessToken
Falsy(h) == ~h.present \/ h.parts = <<"">>

\* accessToken.startsWith("Bearer ")
StartsWithBearer(h) == h.present /\ Len(h.parts) >= 2 /\ h.parts[1] = "Bearer"

\* accessToken.split(" ")[1], {} for undefined
SplitSecond(h) == IF Len(h.parts) >= 2 THEN {h.parts[2]} ELSE {}

----------------------------------------------------------------------------
(* auth.middleware.js and the /protected handler *)

ProtectedHandler(res, user) ==
    LET u == CHOOSE x \in user : TRUE IN
    ResJson(res, 200,
            Body(<<"Has entrado en ruta privada! y tu email es: ", u.email>>, {}, {}))

\* The state of a GET /protected request after authMiddleware (and the
\* handler, when next() was called) ran on header h at time now.
authMiddleware(h, now) ==
    LET res1 == IF Falsy(h) \/ ~StartsWithBearer(h)
                THEN ResJson(NewRes, 403, Body(<<"Incorrect Token! ">>, {}, {}))
                ELSE NewRes
        \* accessToken.split on undefined throws a TypeError inside the try
        v == IF ~h.present
             THEN JwtError("TypeError", "Cannot read properties of undefined")
             ELSE jwtVerify(SplitSecond(h), jwt_token_secret, now)
    IN  IF v.ok
        THEN [res |-> ProtectedHandler(res1, v.payload), next |-> TRUE,
              user |-> v.payload, caught |-> {}]
        ELSE [res |-> ResJson(res1, 401, Body(<<"Unauthorized!">>, {}, {})),
              next |-> FALSE, user |-> {},
              caught |-> {[name |-> v.name, message |-> v.message]}]

----------------------------------------------------------------------------
(* The browser: cookie helpers and initial state of the Redux auth slice *)

\* Strings that pass through encodeURIComponent, decodeURIComponent and
\* split('=') are the lists of their characters.
Tokens == { <<"e", "y", ".", "a", ".", "b">>, <<"a", "=", "b">>, <<"%", " ", ";">> }
FailureMessages == {"Incorrect password!", "Error al iniciar sesión"}
Payloads == [token : Tokens, email : Emails]

days == 1
DaySeconds == 86400
BrowserSteps == {1, days * DaySeconds}

\* encodeURIComponent on one character: unreserved characters stay, the
\* others become their percent escape
Escape(c) ==
    CASE c = "=" -> <<"%", "3", "D">>
      [] c = ";" -> <<"%", "3", "B">>
      [] c = " " -> <<"%", "2", "0">>
      [] c = "%" -> <<"%", "2", "5">>
      [] OTHER -> <<c>>

RECURSIVE encodeURIComponent(_)
encodeURIComponent(str) ==
    IF str = <<>> THEN <<>>
    ELSE Escape(Head(str)) \o encodeURIComponent(Tail(str))

\* decodeURIComponent; an escape it cannot read makes it throw URIError,
\* shown as the one-element list <<"URIError">>
RECURSIVE decodeURIComponent(_)
decodeURIComponent(str) ==
    IF str = <<>> THEN <<>>
    ELSE IF Head(str) # "%"
         THEN LET rest == decodeURIComponent(Tail(str)) IN
              IF rest = <<"URIError">> THEN rest ELSE <<Head(str)>> \o rest
    ELSE IF Len(str) < 3 THEN <<"URIError">>
    ELSE LET hex == SubSeq(str, 2, 3)
             rest == decodeURIComponent(SubSeq(str, 4, Len(str)))
         IN  IF hex \notin {<<"3", "D">>, <<"3", "B">>, <<"2", "0">>, <<"2", "5">>}
                \/ rest = <<"URIError">>
             THEN <<"URIError">>
             ELSE <<CASE hex = <<"3", "D">> -> "="
                      [] hex = <<"3", "B">> -> ";"
                      [] hex = <<"2", "0">> -> " "
                      [] hex = <<"2", "5">> -> "%">> \o rest

\* setCookie without encodeURIComponent
setCookieRaw(jar, name, value, now) ==
    { c \in jar : c.name # name }
    \cup {[name |-> name, value |-> value, expires |-> now + days * DaySeconds]}

\* setCookie(name, value): the cookie of that name (path=/) is replaced by
\* one holding the encoded value and expiring one day from now
setCookie(jar, name, value, now) ==
    { c \in jar : c.name # name }
    \cup {[name |-> name, value |-> encodeURIComponent(value),
           expires |-> now + days * DaySeconds]}

\* deleteCookie(name): an expiry in the past removes the cookie
deleteCookie(jar, name) == { c \in jar : c.name # name }

\* value.split('=')[1] on the row "name=value": the value up to its first '='
RECURSIVE UpToEquals(_)
UpToEquals(str) ==
    IF str = <<>> \/ Head(str) = "=" THEN <<>>
    ELSE <<Head(str)>> \o UpToEquals(Tail(str))

\* getCookie(name) at time now: {} for null. document.cookie lists the
\* cookies that have not expired.
getCookie(jar, name, now) ==
    { decodeURIComponent(UpToEquals(c.value)) :
          c \in { x \in jar : x.name = name /\ now < x.expires } }

\* getHeaders that sends the token without the scheme
getHeadersNoScheme(jar, now) ==
    LET token == getCookie(jar, "token", now) IN
    [ContentType |-> "application/json",
     Authorization |-> IF token # {} /\ token # {<<>>} THEN token ELSE {}]

\* getHeaders(): the headers of a request built at time now. Authorization
\* is {} when the property is not set, else the string "Bearer " followed
\* by the characters of the token.
getHeaders(jar, now) ==
    LET token == getCookie(jar, "token", now) IN
    [ContentType |-> "application/json",
     Authorization |-> IF token # {} /\ token # {<<>>}
                       THEN { <<"Bearer ">> \o t : t \in token }
                       ELSE {}]

\* !!v for a string or null
Truthy(v) == v # {} /\ v # {<<>>}

NoAction == [type |-> "@@INIT", payload |-> {}, prev |-> {}]

\* UserProvider before it is mounted, and its useState initial values; effect
\* tells whether the useEffect on [token] of the last render has yet to run
NoProvider == [user |-> {}, token |-> {}, loading |-> TRUE, effect |-> FALSE]

UserProviderMount(jar, now) ==
    [user |-> {}, token |-> getCookie(jar, "token", now), loading |-> TRUE,
     effect |-> TRUE]

\* The value UserProvider hands to its consumers
UserProviderValue(c) ==
    [user |-> c.user, token |-> c.token, loading |-> c.loading,
     isAuthenticated |-> c.token # {} /\ c.token # {<<>>}]

\* Local state of Register: useState('') for error, useState(false) for loading
RegisterState == [error |-> "", loading |-> FALSE]

NoPages ==
    /\ app = "none"
    /\ ctx = NoProvider
    /\ location = "/"
    /\ calls = <<>>
    /\ register = RegisterState
    /\ wire = <<>>

initialState(jar, now) ==
    [user |-> {}, token |-> getCookie(jar, "token", now), loading |-> FALSE,
     error |-> {}, isAuthenticated |-> Truthy(getCookie(jar, "token", now))]

----------------------------------------------------------------------------
(* Requests *)

Idle == [op |-> "idle", pc |-> "idle"]

\* A request is served on the first connection that is not busy
Free(s) == reqs[s].pc = "idle" /\ \A q \in Slots : q < s => reqs[q].pc # "idle"

\* findOne that never finds a row
findOneNull(email) == {{}}

\* UserModel.findOne({ where: { email } }): the possible results, {} for null.
\* No ORDER BY: with several matching rows any of them may come back.
findOne(email) ==
    LET rows == { u \in users : u.email = email } IN
    IF rows = {} THEN {{}} ELSE { {u} : u \in rows }

\* What a client can put after the scheme: a token it received, a token
\* altered in its payload or its signature segment, or arbitrary text.
Corrupt(t) == [kind |-> "jwt", payload |-> [unparsable |-> TRUE], sig |-> t.sig]

\* Text that is not three segments, the empty string, and three segments
\* that do not decode (a character outside base64url, a header that is no JSON)
Garbage == [kind |-> "raw", text |-> "garbage"]
Empty == [kind |-> "raw", text |-> ""]
Invalid == [kind |-> "invalid", text |-> "a.b.c"]

Tamper(t) ==
    { [t EXCEPT !.payload.email = e] : e \in Emails \ {t.payload.email} }
    \cup { [t EXCEPT !.payload.exp = @ + expiresIn] }
    \cup { [t EXCEPT !.sig = HS256(t.payload, AttackerKey)] }
    \cup { [t EXCEPT !.sig = NoSignature] }
    \cup { Corrupt(t), Invalid }

TokenStrings == issued \cup UNION { Tamper(t) : t \in issued } \cup {Garbage, Empty, Invalid}

Headers ==
    {NoHeader, Header(<<"">>), Header(<<"Bearer">>)}
    \cup { Header(<<s, t>>) : s \in Schemes, t \in TokenStrings }

Init ==
    /\ users = {}
    /\ clock = 0
    /\ ticks = 0
    /\ nreq = 0
    /\ reqs = [s \in Slots |-> Idle]
    /\ last = Idle
    /\ issued = {}
    /\ cookieJar = {}
    /\ auth = initialState({}, 0)
    /\ action = NoAction
    /\ NoPages

Tick(d) ==
    /\ ticks < MaxTicks
    /\ clock' = clock + d
    /\ ticks' = ticks + 1
    /\ UNCHANGED <<users, nreq, reqs, last, issued>>

\* POST /auth/signup up to the resolution of findOne: the request arrives,
\* the database runs the query (dbOk: it does not throw), and when a record
\* is found the handler returns 400 without another await.
SignupFindOne(s, body, dbOk) ==
    /\ Free(s)
    /\ nreq < MaxRequests
    /\ nreq' = nreq + 1
    /\ LET r == [op |-> "signup", body |-> body] IN
       IF ~dbOk
       THEN /\ last' = r @@ [pc |-> "done", isUser |-> {}, created |-> {},
                   res |-> ResJson(NewRes, 500, Body(<<"Create user Error">>, {}, {}))]
            /\ reqs' = reqs
       ELSE \E isUser \in findOne(body.email) :
              IF isUser # {}
              THEN /\ last' = r @@ [pc |-> "done", isUser |-> isUser, created |-> {},
                          res |-> ResJson(NewRes, 400, Body(<<"Users exists!">>, {}, {}))]
                   /\ reqs' = reqs
              ELSE /\ reqs' = [reqs EXCEPT ![s] = r @@ [pc |-> "create"]]
                   /\ last' = last
    /\ UNCHANGED <<users, clock, ticks, issued>>

\* signup writing with UserModel.upsert keyed on the email: the row of that
\* email is replaced
SignupCreateReplace(s, salt, dbOk) ==
    /\ reqs[s].pc = "create"
    /\ LET r == reqs[s]
           user == [id |-> Cardinality(users) + 1, username |-> r.body.username,
                    email |-> r.body.email,
                    password |-> hashSync(r.body.password, salt)]
       IN  IF dbOk
           THEN /\ users' = { u \in users : u.email # user.email } \cup {user}
                /\ reqs' = [reqs EXCEPT ![s] =
                               [r EXCEPT !.pc = "answer"] @@ [created |-> {user}]]
           ELSE /\ users' = users
                /\ reqs' = [reqs EXCEPT ![s] =
                               [r EXCEPT !.pc = "answer"] @@ [created |-> {}]]
    /\ UNCHANGED <<clock, ticks, nreq, last, issued>>

\* POST /auth/signup, UserModel.create: the database executes the INSERT (or
\* throws) while the handler is suspended at the await. uuidv4() is a fresh
\* identifier: the number of the row. The createdAt and updatedAt columns
\* that Sequelize fills in are left out.
SignupCreate(s, salt, dbOk) ==
    /\ reqs[s].pc = "create"
    /\ LET r == reqs[s]
           user == [id |-> Cardinality(users) + 1, username |-> r.body.username,
                    email |-> r.body.email,
                    password |-> hashSync(r.body.password, salt)]
       IN  IF dbOk
           THEN /\ users' = users \cup {user}
                /\ reqs' = [reqs EXCEPT ![s] =
                               [r EXCEPT !.pc = "answer"] @@ [created |-> {user}]]
           ELSE /\ users' = users
                /\ reqs' = [reqs EXCEPT ![s] =
                               [r EXCEPT !.pc = "answer"] @@ [created |-> {}]]
    /\ UNCHANGED <<clock, ticks, nreq, last, issued>>

\* POST /auth/signup after the await of UserModel.create: the handler resumes
\* with the record and answers 201, or with the error in the catch block
SignupRespond(s) ==
    /\ reqs[s].pc = "answer"
    /\ LET r == reqs[s] IN
       last' = [r EXCEPT !.pc = "done"] @@ [isUser |-> {},
                  res |-> IF r.created # {}
                          THEN ResJson(NewRes, 201,
                                   Body(<<"Users created!">>, {}, r.created))
                          ELSE ResJson(NewRes, 500,
                                   Body(<<"Create user Error">>, {}, {}))]
    /\ reqs' = [reqs EXCEPT ![s] = Idle]
    /\ UNCHANGED <<users, clock, ticks, nreq, issued>>

\* signin whose catch block answers like an unknown email
SigninFindOneSwallowsError(s, body, dbOk) ==
    /\ Free(s)
    /\ nreq < MaxRequests
    /\ nreq' = nreq + 1
    /\ LET r == [op |-> "signin", body |-> body,
                 registered |-> \E u \in users : /\ u.email = body.email
                                                 /\ u.password.of = body.password]
       IN  IF ~dbOk
           THEN /\ last' = r @@ [pc |-> "done", isUser |-> {}, at |-> clock,
                       res |-> ResJson(NewRes, 400, Body(<<"Users not exists!">>, {}, {}))]
                /\ reqs' = reqs
           ELSE \E isUser \in findOne(body.email) :
                  /\ reqs' = [reqs EXCEPT ![s] = r @@ [pc |-> "respond", isUser |-> isUser]]
                  /\ last' = last
    /\ UNCHANGED <<users, clock, ticks, issued>>

\* POST /auth/signin up to the resolution of findOne
SigninFindOne(s, body, dbOk) ==
    /\ Free(s)
    /\ nreq < MaxRequests
    /\ nreq' = nreq + 1
    /\ LET r == [op |-> "signin", body |-> body,
                 registered |-> \E u \in users : /\ u.email = body.email
                                                 /\ u.password.of = body.password]
       IN  IF ~dbOk
           THEN /\ last' = r @@ [pc |-> "done", isUser |-> {}, at |-> clock,
                       res |-> ResJson(NewRes, 500, Body(<<"Login user Error">>, {}, {}))]
                /\ reqs' = reqs
           ELSE \E isUser \in findOne(body.email) :
                  /\ reqs' = [reqs EXCEPT ![s] = r @@ [pc |-> "respond", isUser |-> isUser]]
                  /\ last' = last
    /\ UNCHANGED <<users, clock, ticks, issued>>

\* signin without the compareSync test
SigninResultNoCompare(email, password, isUser, now) ==
    IF isUser = {}
    THEN ResJson(NewRes, 400, Body(<<"Users not exists!">>, {}, {}))
    ELSE ResJson(NewRes, 200,
             Body(<<"Login ok!">>,
                  {jwtSign([email |-> email], signin_jwt_token_secret, now)}, {}))

\* The response of POST /auth/signin once findOne returned isUser, at time now
SigninResult(email, password, isUser, now) ==
    IF isUser = {}
    THEN ResJson(NewRes, 400, Body(<<"Users not exists!">>, {}, {}))
    ELSE LET u == CHOOSE x \in isUser : TRUE IN
         IF ~compareSync(password, u.password)
         THEN ResJson(NewRes, 400, Body(<<"Incorrect password!">>, {}, {}))
         ELSE ResJson(NewRes, 200,
                  Body(<<"Login ok!">>,
                       {jwtSign([email |-> email], signin_jwt_token_secret, now)}, {}))

\* signin that saves the token it issued in the user's row
SigninRespondStoresToken(s) ==
    /\ reqs[s].pc = "respond"
    /\ LET r == reqs[s]
           res == SigninResult(r.body.email, r.body.password, r.isUser, clock)
           tokens == res.sent[1].body.accessToken
       IN  /\ last' = [r EXCEPT !.pc = "done"] @@ [at |-> clock, res |-> res]
           /\ issued' = issued \cup tokens
           /\ users' = IF tokens = {} THEN users
                       ELSE (users \ r.isUser)
                            \cup { u @@ [token |-> tokens] : u \in r.isUser }
    /\ reqs' = [reqs EXCEPT ![s] = Idle]
    /\ UNCHANGED <<clock, ticks, nreq>>

\* signin whose email is a variable of the module, shared by the requests
\* in flight: the one assigned last is the one signed
SigninRespondSharedEmail(s) ==
    /\ reqs[s].pc = "respond"
    /\ LET r == reqs[s]
           q == CHOOSE x \in Slots :
                    /\ reqs[x].pc = "respond"
                    /\ \A y \in Slots : reqs[y].pc = "respond" => y <= x
           res == SigninResult(reqs[q].body.email, r.body.password, r.isUser, clock)
       IN  /\ last' = [r EXCEPT !.pc = "done"] @@ [at |-> clock, res |-> res]
           /\ issued' = issued \cup res.sent[1].body.accessToken
    /\ reqs' = [reqs EXCEPT ![s] = Idle]
    /\ UNCHANGED <<users, clock, ticks, nreq>>

\* POST /auth/signin after findOne: password check, jwt.sign, response
SigninRespond(s) ==
    /\ reqs[s].pc = "respond"
    /\ LET r == reqs[s]
           res == SigninResult(r.body.email, r.body.password, r.isUser, clock)
       IN  /\ last' = [r EXCEPT !.pc = "done"] @@ [at |-> clock, res |-> res]
           /\ issued' = issued \cup res.sent[1].body.accessToken
    /\ reqs' = [reqs EXCEPT ![s] = Idle]
    /\ UNCHANGED <<users, clock, ticks, nreq>>

\* GET /protected: authMiddleware and the handler run synchronously
Protected(h) ==
    /\ nreq < MaxRequests
    /\ nreq' = nreq + 1
    /\ last' = [op |-> "protected", pc |-> "done", header |-> h, at |-> clock]
                  @@ authMiddleware(h, clock)
    /\ UNCHANGED <<users, clock, ticks, reqs, issued>>

\* The server on its own: the browser does not move
Next ==
    \/ \E d \in ClockSteps : Tick(d) /\ UNCHANGED browser
    \/ \E s \in Slots, body \in Bodies, dbOk \in BOOLEAN :
          SignupFindOne(s, body, dbOk) /\ UNCHANGED browser
    \/ \E s \in Slots, salt \in Salts, dbOk \in BOOLEAN :
          SignupCreate(s, salt, dbOk) /\ UNCHANGED browser
    \/ \E s \in Slots : SignupRespond(s) /\ UNCHANGED browser
    \/ \E s \in Slots, body \in Bodies, dbOk \in BOOLEAN :
          SigninFindOne(s, body, dbOk) /\ UNCHANGED browser
    \/ \E s \in Slots : SigninRespond(s) /\ UNCHANGED browser
    \/ \E h \in Headers : Protected(h) /\ UNCHANGED browser

Spec == Init /\ [][Next]_vars

----------------------------------------------------------------------------
(* The Redux auth slice (authSlice.js): one action per reducer *)

\* The action object; payload is {} when the action carries none
Dispatched(type, payload) == [type |-> type, payload |-> payload, prev |-> {auth}]

\* loginStart that also forgets the user
loginStartClearsUser ==
    /\ auth' = [auth EXCEPT !.loading = TRUE, !.error = {}, !.user = {}]
    /\ action' = Dispatched("auth/loginStart", {})
    /\ UNCHANGED <<cookieJar, clock, ticks, server>>

loginStart ==
    /\ auth' = [auth EXCEPT !.loading = TRUE, !.error = {}]
    /\ action' = Dispatched("auth/loginStart", {})
    /\ UNCHANGED <<cookieJar, clock, ticks, server>>

loginSuccess(payload) ==
    /\ auth' = [loading |-> FALSE, user |-> {[email |-> payload.email]},
                token |-> {payload.token}, isAuthenticated |-> TRUE, error |-> {}]
    /\ cookieJar' = setCookie(cookieJar, "token", payload.token, clock)
    /\ action' = Dispatched("auth/loginSuccess", {payload})
    /\ UNCHANGED <<clock, ticks, server>>

\* loginFailure as the README's slice has it: only loading and error
loginFailureKeepsSession(message) ==
    /\ auth' = [auth EXCEPT !.loading = FALSE, !.error = {message}]
    /\ action' = Dispatched("auth/loginFailure", {[message |-> message]})
    /\ UNCHANGED <<cookieJar, clock, ticks, server>>

\* loginFailure that clears the token and leaves isAuthenticated as it was
loginFailureTokenOnly(message) ==
    /\ auth' = [auth EXCEPT !.loading = FALSE, !.error = {message}, !.token = {}]
    /\ action' = Dispatched("auth/loginFailure", {[message |-> message]})
    /\ UNCHANGED <<cookieJar, clock, ticks, server>>

loginFailure(message) ==
    /\ auth' = [loading |-> FALSE, error |-> {message}, user |-> {},
                token |-> {}, isAuthenticated |-> FALSE]
    /\ action' = Dispatched("auth/loginFailure", {[message |-> message]})
    /\ UNCHANGED <<cookieJar, clock, ticks, server>>

\* logout that leaves the cookie in place
logoutKeepsCookie ==
    /\ auth' = [user |-> {}, token |-> {}, isAuthenticated |-> FALSE,
                error |-> {}, loading |-> FALSE]
    /\ action' = Dispatched("auth/logout", {})
    /\ UNCHANGED <<cookieJar, clock, ticks, server>>

logout ==
    /\ auth' = [user |-> {}, token |-> {}, isAuthenticated |-> FALSE,
                error |-> {}, loading |-> FALSE]
    /\ cookieJar' = deleteCookie(cookieJar, "token")
    /\ action' = Dispatched("auth/logout", {})
    /\ UNCHANGED <<clock, ticks, server>>

clearError ==
    /\ auth' = [auth EXCEPT !.error = {}]
    /\ action' = Dispatched("auth/clearError", {})
    /\ UNCHANGED <<cookieJar, clock, ticks, server>>

setLoading(b) ==
    /\ auth' = [auth EXCEPT !.loading = b]
    /\ action' = Dispatched("auth/setLoading", {[loading |-> b]})
    /\ UNCHANGED <<cookieJar, clock, ticks, server>>

\* ProtectedRoute without the loading test
ProtectedRouteNoLoading(state) ==
    IF ~state.isAuthenticated THEN "Navigate to /login"
    ELSE "children"

\* ProtectedRoute.jsx: what the component returns for state.auth
ProtectedRoute(state) ==
    IF state.loading THEN "Cargando..."
    ELSE IF ~state.isAuthenticated THEN "Navigate to /login"
    ELSE "children"

\* Time passes in the browser
BrowserTick(d) ==
    /\ ticks < MaxTicks
    /\ clock' = clock + d
    /\ ticks' = ticks + 1
    /\ UNCHANGED <<browser, server>>

\* The page is loaded again: the store is created anew from initialState
Reload ==
    /\ auth' = initialState(cookieJar, clock)
    /\ action' = NoAction
    /\ UNCHANGED <<cookieJar, clock, ticks, server>>

\* The page is loaded with no cookie, or with the cookie an earlier login left
InitRedux ==
    /\ users = {}
    /\ clock = 0
    /\ ticks = 0
    /\ nreq = 0
    /\ reqs = [s \in Slots |-> Idle]
    /\ last = Idle
    /\ issued = {}
    /\ cookieJar \in {{}} \cup { setCookie({}, "token", t, 0) : t \in Tokens }
    /\ auth = initialState(cookieJar, 0)
    /\ action = NoAction
    /\ app = "redux"
    /\ ctx = NoProvider
    /\ location = "/login"
    /\ calls = <<>>
    /\ register = RegisterState
    /\ wire = <<>>

NextRedux ==
    \/ app = "redux" /\ loginStart /\ UNCHANGED pages
    \/ \E payload \in Payloads :
          app = "redux" /\ loginSuccess(payload) /\ UNCHANGED pages
    \/ \E message \in FailureMessages :
          app = "redux" /\ loginFailure(message) /\ UNCHANGED pages
    \/ app = "redux" /\ logout /\ UNCHANGED pages
    \/ app = "redux" /\ clearError /\ UNCHANGED pages
    \/ \E b \in BOOLEAN : app = "redux" /\ setLoading(b) /\ UNCHANGED pages
    \/ \E d \in BrowserSteps : BrowserTick(d)
    \/ app = "redux" /\ Reload /\ UNCHANGED pages

SpecRedux == InitRedux /\ [][NextRedux]_vars

----------------------------------------------------------------------------
(* The Redux frontend as its pages drive it: Login, Register, Dashboard *)

MaxCalls == 2

\* How a request of authService ends: handleResponse returns { data }, or
\* throws with err.response set, or fetch itself rejects (no err.response)
SigninOutcomes ==
    { [kind |-> "data", token |-> t, message |-> ""] : t \in Tokens }
    \cup { [kind |-> "response", token |-> <<>>, message |-> "Incorrect password!"],
           [kind |-> "network", token |-> <<>>, message |-> ""] }

SignupOutcomes ==
    { [kind |-> "data", message |-> "Users created!"],
      [kind |-> "response", message |-> "Users exists!"],
      [kind |-> "network", message |-> ""] }

\* err.response?.data?.message || fallback
MessageOr(outcome, fallback) ==
    IF outcome.kind = "response" /\ outcome.message # "" THEN outcome.message
    ELSE fallback

Remove(seq, i) == SubSeq(seq, 1, i - 1) \o SubSeq(seq, i + 1, Len(seq))

\* Local state of a page lives while the page is mounted
RegisterAt(path, state) == IF path = "/register" THEN state ELSE RegisterState

\* The router leaves /register: the Register instance is unmounted, and the
\* handleSubmit calls it made go on with setters that no longer do anything
Unmount(cs, from, to) ==
    IF from = "/register" /\ to # "/register"
    THEN [k \in DOMAIN cs |->
             IF cs[k].form = "register" THEN [cs[k] EXCEPT !.mounted = FALSE]
             ELSE cs[k]]
    ELSE cs

\* Login.handleSubmit up to the await; the submit button is disabled while
\* state.auth.loading
LoginSubmit(email) ==
    /\ location = "/login"
    /\ ~auth.loading
    /\ Len(calls) < MaxCalls
    /\ loginStart
    /\ calls' = Append(calls, [form |-> "login", email |-> email])
    /\ UNCHANGED <<app, ctx, location, register>>

\* handleSubmit whose catch block dispatches nothing
SigninSettlesSilentCatch(i, outcome) ==
    /\ i \in 1..Len(calls)
    /\ calls[i].form = "login"
    /\ IF outcome.kind = "data"
       THEN /\ loginSuccess([token |-> outcome.token, email |-> calls[i].email])
            /\ location' = "/dashboard"
       ELSE /\ location' = location
            /\ UNCHANGED <<auth, cookieJar, action, clock, ticks, server>>
    /\ calls' = Unmount(Remove(calls, i), location, location')
    /\ register' = RegisterAt(location', register)
    /\ UNCHANGED <<app, ctx>>

\* Login.handleSubmit after the await: loginSuccess and navigate, or the
\* catch block's loginFailure
SigninSettles(i, outcome) ==
    /\ i \in 1..Len(calls)
    /\ calls[i].form = "login"
    /\ IF outcome.kind = "data"
       THEN /\ loginSuccess([token |-> outcome.token, email |-> calls[i].email])
            /\ location' = "/dashboard"
       ELSE /\ loginFailure(MessageOr(outcome, "Error al iniciar sesión"))
            /\ location' = location
    /\ calls' = Unmount(Remove(calls, i), location, location')
    /\ register' = RegisterAt(location', register)
    /\ UNCHANGED <<app, ctx>>

\* Register.handleSubmit up to the await
RegisterSubmit ==
    /\ location = "/register"
    /\ ~register.loading
    /\ Len(calls) < MaxCalls
    /\ register' = [error |-> "", loading |-> TRUE]
    /\ calls' = Append(calls, [form |-> "register", email |-> "", mounted |-> TRUE])
    /\ UNCHANGED <<auth, cookieJar, action, app, ctx, location, clock, ticks, server>>

\* Register.handleSubmit that logs the new user in
SignupSettlesLogsIn(i, outcome) ==
    /\ i \in 1..Len(calls)
    /\ calls[i].form = "register"
    /\ IF outcome.kind = "data"
       THEN /\ location' = "/login"
            /\ register' = RegisterState
            /\ \E payload \in Payloads : loginSuccess(payload)
       ELSE /\ location' = location
            /\ register' = IF calls[i].mounted
                           THEN [error |-> MessageOr(outcome, "Error al registrarse"),
                                 loading |-> FALSE]
                           ELSE register
            /\ UNCHANGED <<auth, cookieJar, action, clock, ticks, server>>
    /\ calls' = Unmount(Remove(calls, i), location, location')
    /\ UNCHANGED <<app, ctx>>

\* Register.handleSubmit after the await: navigate('/login'), or setError in
\* the catch block; setLoading(false) in finally. The setters are those of
\* the Register instance that made the call: once that instance is
\* unmounted they set nothing, also when /register shows a new instance.
SignupSettles(i, outcome) ==
    /\ i \in 1..Len(calls)
    /\ calls[i].form = "register"
    /\ IF outcome.kind = "data"
       THEN /\ location' = "/login"
            /\ register' = RegisterState
       ELSE /\ location' = location
            /\ register' = IF calls[i].mounted
                           THEN [error |-> MessageOr(outcome, "Error al registrarse"),
                                 loading |-> FALSE]
                           ELSE register
    /\ calls' = Unmount(Remove(calls, i), location, location')
    /\ UNCHANGED <<auth, cookieJar, action, app, ctx, clock, ticks, server>>

\* The user follows a link or types a path; the router renders without
\* loading the page again
Goto(path) ==
    /\ location # path
    /\ location' = path
    /\ register' = RegisterAt(path, register)
    /\ calls' = Unmount(calls, location, path)
    /\ UNCHANGED <<auth, cookieJar, action, app, ctx, clock, ticks, server>>

\* /dashboard renders <Navigate to="/login" replace />
Redirect ==
    /\ location = "/dashboard"
    /\ ProtectedRoute(auth) = "Navigate to /login"
    /\ location' = "/login"
    /\ UNCHANGED <<auth, cookieJar, action, app, ctx, calls, register,
                   clock, ticks, server>>

\* Dashboard.handleLogout: dispatch(logout()), navigate('/login')
handleLogout ==
    /\ location = "/dashboard"
    /\ ProtectedRoute(auth) = "children"
    /\ logout
    /\ location' = "/login"
    /\ UNCHANGED <<app, ctx, calls, register>>

\* The page is loaded again: the calls in flight die with the old page
ReloadPage ==
    /\ Reload
    /\ calls' = <<>>
    /\ register' = RegisterState
    /\ UNCHANGED <<app, ctx, location>>

NextReduxApp ==
    \/ \E email \in Emails : LoginSubmit(email) /\ UNCHANGED wire
    \/ \E i \in 1..MaxCalls, outcome \in SigninOutcomes :
          SigninSettles(i, outcome) /\ UNCHANGED wire
    \/ RegisterSubmit /\ UNCHANGED wire
    \/ \E i \in 1..MaxCalls, outcome \in SignupOutcomes :
          SignupSettles(i, outcome) /\ UNCHANGED wire
    \/ \E path \in {"/login", "/register", "/dashboard"} :
          Goto(path) /\ UNCHANGED wire
    \/ Redirect /\ UNCHANGED wire
    \/ handleLogout /\ UNCHANGED wire
    \/ ReloadPage /\ UNCHANGED wire
    \/ \E d \in BrowserSteps : BrowserTick(d)

SpecReduxApp == InitRedux /\ [][NextReduxApp]_vars

\* Every request of the Login page settles: fetch resolves or rejects
LiveReduxApp ==
    /\ SpecReduxApp
    /\ WF_vars(\E i \in 1..MaxCalls, outcome \in SigninOutcomes :
                   SigninSettles(i, outcome) /\ UNCHANGED wire)

----------------------------------------------------------------------------
(* Requests between a frontend and the backend *)

\* The compact serialisation of a token: header, payload and signature
\* segments joined by dots. A segment is one element of the string.
JwtString(t) ==
    <<"eyJhbGciOiJIUzI1NiJ9", ".", ToString(t.payload), ".", ToString(t.sig)>>

\* The token a string of characters is the serialisation of. Text that is
\* not a token a client can hold is told apart as jwt.verify tells it apart:
\* the empty string, text of three segments (two dots) that does not decode,
\* and any other text.
ParseToken(str) ==
    LET known == { t \in TokenStrings : t.kind = "jwt" /\ JwtString(t) = str }
        dots == { i \in 1..Len(str) : str[i] = "." }
    IN  IF str = <<>> THEN Empty
        ELSE IF known # {} THEN CHOOSE t \in known : TRUE
        ELSE IF Cardinality(dots) = 2 THEN Invalid
        ELSE Garbage

\* str.split(" "): the pieces of str between its spaces
RECURSIVE Split(_)
Split(str) ==
    LET spaces == { i \in 1..Len(str) : str[i] = " " } IN
    IF spaces = {} THEN <<str>>
    ELSE LET i == CHOOSE x \in spaces : \A y \in spaces : x <= y
         IN  <<SubSeq(str, 1, i - 1)>> \o Split(SubSeq(str, i + 1, Len(str)))

\* The Authorization header as authMiddleware takes it apart:
\* accessToken.split(" "), each piece after the scheme read as a token
RequestHeader(headers) ==
    IF headers.Authorization = {} THEN NoHeader
    ELSE LET a == CHOOSE x \in headers.Authorization : TRUE
             pieces == Split(Tail(a))
         IN  Header(<<"Bearer">> \o [k \in 1..Len(pieces) |-> ParseToken(pieces[k])])

\* The GET /protected k of the network reaches the route, with the headers
\* it was sent with. What the Dashboard does with the response (the message
\* it shows) is local state of the Dashboard and changes nothing else.
getProtectedArrives(k) ==
    /\ k \in 1..Len(wire)
    /\ wire[k].op = "protected"
    /\ Protected(RequestHeader(wire[k].headers))
    /\ wire' = Remove(wire, k)
    /\ UNCHANGED <<auth, cookieJar, action, app, ctx, location, calls, register>>

----------------------------------------------------------------------------
(* UserProvider (UserContext.jsx) of the Context frontend *)

\* login(accessToken, userEmail): setToken and setUser; the render that
\* follows schedules the effect when token changed. React runs the effect of
\* a render before it renders again, so a call finds no effect waiting.
UserProvider_login(accessToken, userEmail) ==
    /\ ~ctx.effect
    /\ ctx' = [ctx EXCEPT !.token = {accessToken},
                          !.user = {[email |-> userEmail]},
                          !.effect = ctx.token # {accessToken}]
    /\ action' = [type |-> "UserProvider/login",
                  payload |-> {[token |-> accessToken, email |-> userEmail]},
                  prev |-> {ctx}]
    /\ UNCHANGED <<auth, cookieJar, app, location, calls, register,
                   clock, ticks, server>>

UserProvider_logout ==
    /\ ~ctx.effect
    /\ ctx' = [ctx EXCEPT !.token = {}, !.user = {}, !.effect = ctx.token # {}]
    /\ action' = [type |-> "UserProvider/logout", payload |-> {},
                  prev |-> {ctx}]
    /\ UNCHANGED <<auth, cookieJar, app, location, calls, register,
                   clock, ticks, server>>

\* The effect with the else branch left out: a null token leaves the cookie
UserProvider_useEffectNoDelete ==
    /\ ctx.effect
    /\ cookieJar' = IF ctx.token # {} /\ ctx.token # {<<>>}
                    THEN setCookie(cookieJar, "token",
                                   CHOOSE t \in ctx.token : TRUE, clock)
                    ELSE cookieJar
    /\ ctx' = [ctx EXCEPT !.loading = FALSE, !.effect = FALSE]
    /\ UNCHANGED <<auth, action, app, location, calls, register,
                   clock, ticks, server>>

\* useEffect(..., [token]): the cookie follows the token, loading ends
UserProvider_useEffect ==
    /\ ctx.effect
    /\ cookieJar' = IF ctx.token # {} /\ ctx.token # {<<>>}
                    THEN setCookie(cookieJar, "token",
                                   CHOOSE t \in ctx.token : TRUE, clock)
                    ELSE deleteCookie(cookieJar, "token")
    /\ ctx' = [ctx EXCEPT !.loading = FALSE, !.effect = FALSE]
    /\ UNCHANGED <<auth, action, app, location, calls, register,
                   clock, ticks, server>>

\* The page is loaded again: UserProvider mounts anew
UserProvider_remount ==
    /\ ctx' = UserProviderMount(cookieJar, clock)
    /\ UNCHANGED <<auth, cookieJar, action, app, location, calls, register,
                   clock, ticks, server>>

InitContext ==
    /\ users = {}
    /\ clock = 0
    /\ ticks = 0
    /\ nreq = 0
    /\ reqs = [s \in Slots |-> Idle]
    /\ last = Idle
    /\ issued = {}
    /\ cookieJar \in {{}} \cup { setCookie({}, "token", t, 0) : t \in Tokens }
    /\ auth = initialState({}, 0)
    /\ action = NoAction
    /\ app = "context"
    /\ ctx = UserProviderMount(cookieJar, 0)
    /\ location = "/login"
    /\ calls = <<>>
    /\ register = RegisterState
    /\ wire = <<>>

NextContext ==
    \/ \E payload \in Payloads :
          /\ app = "context"
          /\ UserProvider_login(payload.token, payload.email)
          /\ UNCHANGED wire
    \/ app = "context" /\ UserProvider_logout /\ UNCHANGED wire
    \/ app = "context" /\ UserProvider_useEffect /\ UNCHANGED wire
    \/ app = "context" /\ UserProvider_remount /\ UNCHANGED wire
    \/ \E d \in BrowserSteps : BrowserTick(d)

SpecContext == InitContext /\ [][NextContext]_vars

\* React runs the effect a render has scheduled
LiveContext ==
    /\ SpecContext
    /\ WF_vars(app = "context" /\ UserProvider_useEffect /\ UNCHANGED wire)

\* The auth store of either frontend
InitStores == InitRedux \/ InitContext

NextStores == NextRedux \/ NextContext

SpecStores == InitStores /\ [][NextStores]_vars

----------------------------------------------------------------------------
(* The Redux frontend against the backend: the requests of authService are
   the requests the routes handle *)

\* handleResponse: { data } when response.ok, else the error thrown with
\* err.response.data
handleResponse(response) ==
    IF response.status >= 200 /\ response.status < 300
    THEN [kind |-> "data", message |-> "",
          token |-> LET t == CHOOSE x \in response.body.accessToken : TRUE
                    IN  JwtString(t)]
    ELSE [kind |-> "response", token |-> <<>>,
          message |-> response.body.message[1]]

Unsent(call) == call.form = "login" /\ "slot" \notin DOMAIN call

Waiting(call, s) ==
    /\ "slot" \in DOMAIN call
    /\ call.slot = s
    /\ "response" \notin DOMAIN call

\* Login.handleSubmit up to the await, with the request fetch sends: the
\* POST /auth/signin is on its way whatever becomes of the page
SessionLoginSubmit(email, password) ==
    /\ nreq + Len(wire) < MaxRequests
    /\ LoginSubmit(email)
    /\ wire' = Append(wire, [op |-> "signin", awaited |-> TRUE,
                             body |-> [email |-> email, password |-> password]])

\* The POST /auth/signin k of the network reaches the route. The call that
\* awaits it, if the page that sent it is still loaded, is the one of the
\* Login page (the form is disabled while state.auth.loading)
SessionSigninArrives(k, s, dbOk) ==
    /\ k \in 1..Len(wire)
    /\ wire[k].op = "signin"
    /\ SigninFindOne(s, wire[k].body, dbOk)
    /\ wire' = Remove(wire, k)
    /\ calls' = [i \in DOMAIN calls |->
                    IF wire[k].awaited /\ Unsent(calls[i])
                    THEN IF dbOk THEN calls[i] @@ [slot |-> s]
                         ELSE calls[i] @@ [slot |-> s, response |-> last'.res.sent[1]]
                    ELSE calls[i]]
    /\ UNCHANGED <<auth, cookieJar, action, app, ctx, location, register>>

\* The server answers the signin in slot s; the call that waits for it, if
\* the page that made it is still loaded, has its response
SessionSigninResponds(s) ==
    /\ SigninRespond(s)
    /\ calls' = [i \in DOMAIN calls |->
                    IF Waiting(calls[i], s)
                    THEN calls[i] @@ [response |-> last'.res.sent[1]]
                    ELSE calls[i]]
    /\ UNCHANGED <<auth, cookieJar, action, app, ctx, location, register, wire>>

\* Login.handleSubmit resumes with the response of its request
SessionSigninSettles(i) ==
    /\ i \in 1..Len(calls)
    /\ "response" \in DOMAIN calls[i]
    /\ SigninSettles(i, handleResponse(calls[i].response))
    /\ UNCHANGED wire

\* Dashboard.fetchProtectedData up to the await: authService.getProtected
\* builds the headers and fetch sends GET /protected
fetchProtectedData ==
    /\ location = "/dashboard"
    /\ ProtectedRoute(auth) = "children"
    /\ nreq + Len(wire) < MaxRequests
    /\ wire' = Append(wire, [op |-> "protected",
                             headers |-> getHeaders(cookieJar, clock)])
    /\ UNCHANGED <<auth, cookieJar, action, app, ctx, location, calls, register,
                   clock, ticks, server>>

\* The page is loaded again: the requests it sent are still on their way,
\* and nothing awaits their responses
SessionReloadPage ==
    /\ ReloadPage
    /\ wire' = [k \in DOMAIN wire |->
                   IF wire[k].op = "signin" THEN [wire[k] EXCEPT !.awaited = FALSE]
                   ELSE wire[k]]

\* The page is first loaded in a browser that holds no cookie
InitSession ==
    /\ InitRedux
    /\ cookieJar = {}

\* The account the session is about: the one user who signs up
SessionAccounts ==
    { b \in Bodies : b.email = "alice@x.com" /\ b.password = "secret123" }

NextSession ==
    \/ \E s \in Slots, body \in SessionAccounts, dbOk \in BOOLEAN :
          SignupFindOne(s, body, dbOk) /\ UNCHANGED browser
    \/ \E s \in Slots, salt \in Salts, dbOk \in BOOLEAN :
          SignupCreate(s, salt, dbOk) /\ UNCHANGED browser
    \/ \E s \in Slots : SignupRespond(s) /\ UNCHANGED browser
    \/ \E email \in Emails, password \in Passwords :
          SessionLoginSubmit(email, password)
    \/ \E k \in 1..MaxRequests, s \in Slots, dbOk \in BOOLEAN :
          SessionSigninArrives(k, s, dbOk)
    \/ \E s \in Slots : SessionSigninResponds(s)
    \/ \E i \in 1..MaxCalls : SessionSigninSettles(i)
    \/ fetchProtectedData
    \/ \E k \in 1..MaxRequests : getProtectedArrives(k)
    \/ \E path \in {"/login", "/dashboard"} : Goto(path) /\ UNCHANGED wire
    \/ Redirect /\ UNCHANGED wire
    \/ handleLogout /\ UNCHANGED wire
    \/ SessionReloadPage
    \/ \E d \in ClockSteps : BrowserTick(d)

SpecSession == InitSession /\ [][NextSession]_vars

----------------------------------------------------------------------------
(* Vocabulary of the properties *)

R403 == [status |-> 403, body |-> Body(<<"Incorrect Token! ">>, {}, {})]
R401 == [status |-> 401, body |-> Body(<<"Unauthorized!">>, {}, {})]

IsProtected == last.op = "protected"

\* The response the client received
Sent(r) == r.res.sent[1]

\* The request reached the protected handler and was answered by it
Accepted(r) == r.next /\ Sent(r).status = 200

\* The signature segment is the signing key's signature over the payload
SignedByKey(t) ==
    t.kind = "jwt" /\ t.sig = HS256(t.payload, signin_jwt_token_secret)

Parses(t) == t.kind = "jwt" /\ "exp" \in DOMAIN t.payload

Caught(r, name, message) == r.caught = {[name |-> name, message |-> message]}

----------------------------------------------------------------------------
\* C1: a GET /protected request that was answered with an admission failure
\* (403 or 401) never reaches the protected handler: next() is not called.
C1_FailureShortCircuits ==
    IsProtected /\ Sent(last).status \in {401, 403} => ~last.next

\* C2: a token presented as "Bearer <token>" is accepted if and only if its
\* signature verifies under the signing key and the time of the request is
\* strictly before its exp; at now = exp it is rejected.
C2_AcceptedIffSignedAndUnexpired ==
    IsProtected /\ StartsWithBearer(last.header) =>
        LET t == last.header.parts[2] IN
        Accepted(last) <=> (SignedByKey(t) /\ last.at < t.payload.exp)

C2_Witness ==
    /\ IsProtected
    /\ StartsWithBearer(last.header)
    /\ last.header.parts[2] \in issued
    /\ last.at = last.header.parts[2].payload.exp
    /\ ~last.next
    /\ Caught(last, "TokenExpiredError", "jwt expired")

\* C3: a signin with a pair (email, password) that signup registered (some
\* user record holds that email and the hash of that password when the signin
\* looks the user up) answers 200 with a token, and authMiddleware run at
\* once on "Bearer " + that token accepts it and recovers the same email.
C3_SigninThenAdmitRoundTrip ==
    last.op = "signin" /\ last.registered /\ Sent(last).status # 500 =>
        /\ Sent(last).status = 200
        /\ \A t \in Sent(last).body.accessToken :
              LET a == authMiddleware(Header(<<"Bearer", t>>), last.at) IN
              /\ a.next
              /\ a.res.sent[1].status = 200
              /\ \A u \in a.user : u.email = last.body.email

\* C4: a token issued by signin is accepted when presented at its issue time,
\* is rejected as expired at every time past its exp, and the clock never
\* goes back, so an expired token stays expired.
C4_ValidWhenFreshExpiredForever ==
    /\ [](IsProtected /\ StartsWithBearer(last.header)
            /\ last.header.parts[2] \in issued =>
              LET t == last.header.parts[2] IN
              /\ last.at = t.payload.iat => Accepted(last)
              /\ last.at > t.payload.exp =>
                    /\ ~last.next
                    /\ Sent(last) = R401
                    /\ Caught(last, "TokenExpiredError", "jwt expired"))
    /\ [][clock' >= clock]_vars

C4_Witness ==
    /\ IsProtected
    /\ StartsWithBearer(last.header)
    /\ last.header.parts[2] \in issued
    /\ last.at > last.header.parts[2].payload.exp
    /\ Caught(last, "TokenExpiredError", "jwt expired")

\* The token after the scheme is an issued token altered in its payload or
\* in its signature segment
Tampered(h) == Len(h.parts) >= 2 /\ \E t \in issued : h.parts[2] \in Tamper(t)

\* C5: a token that differs from an issued token in its payload or its
\* signature segment is rejected, and always as an invalid signature; and no
\* request is accepted whose token was not signed by the signing key over
\* its exact payload.
C5_TamperedIsInvalidSignature ==
    IsProtected =>
        /\ Tampered(last.header) =>
              /\ ~last.next
              /\ Caught(last, "JsonWebTokenError", "invalid signature")
        /\ last.next => SignedByKey(last.header.parts[2])

\* The signin failed because findOne found no record
NoSuchUser(r) == r.op = "signin" /\ r.isUser = {} /\ Sent(r).status # 500

\* The signin failed because the password did not match the record found
BadPassword(r) ==
    /\ r.op = "signin"
    /\ r.isUser # {}
    /\ \A u \in r.isUser : ~compareSync(r.body.password, u.password)

\* C6: a signin for an email without a record and a signin with a wrong
\* password for an existing email get the same response (status and message).
C6_SigninFailuresAlike ==
    [][(NoSuchUser(last) /\ BadPassword(last')) \/ (BadPassword(last) /\ NoSuchUser(last'))
         => last'.res.sent = last.res.sent]_vars

\* C7: a signup that arrives when a record with its email exists is answered
\* 400 "Users exists!" (unless the lookup itself fails), creates no record,
\* never reaches UserModel.create, and leaves the user store as it was.
C7_SignupExistingEmailRejected ==
    [][/\ \A s \in Slots :
            reqs[s].pc = "idle" /\ reqs'[s].pc = "create" =>
                ~\E u \in users : u.email = reqs'[s].body.email
       /\ (/\ nreq' = nreq + 1
           /\ reqs' = reqs
           /\ last'.op = "signup"
           /\ \E u \in users : u.email = last'.body.email)
          => /\ users' = users
             /\ last'.created = {}
             /\ Sent(last').status \in {400, 500}
             /\ Sent(last').status = 400 =>
                   Sent(last').body = Body(<<"Users exists!">>, {}, {})]_vars

C7_Witness ==
    /\ last.op = "signup"
    /\ Sent(last).status = 400
    /\ last.isUser # {}
    /\ last.isUser \subseteq users
    /\ \A u \in last.isUser : u.email = last.body.email

\* C8: no two user records hold the same email.
C8_EmailsUnique ==
    \A u \in users, v \in users : u.email = v.email => u = v

\* The header is missing, lacks the "Bearer " prefix, or its token part does
\* not parse into payload and signature
Malformed(h) ==
    \/ Falsy(h)
    \/ ~StartsWithBearer(h)
    \/ ~Parses(h.parts[2])

\* C9: a request whose header is missing, lacks the "Bearer " prefix, or
\* whose token part does not parse is rejected (next() is not called), never
\* with the error of an invalid signature or of an expired token, and any
\* two such requests get one and the same answer.
C9_MalformedAlikeAndDistinct ==
    /\ [](IsProtected /\ Malformed(last.header) =>
            /\ ~last.next
            /\ ~Caught(last, "JsonWebTokenError", "invalid signature")
            /\ ~Caught(last, "TokenExpiredError", "jwt expired"))
    /\ [][IsProtected /\ last'.op = "protected"
           /\ Malformed(last.header) /\ Malformed(last'.header)
               => Sent(last') = Sent(last)]_vars

\* C10: the checks run in the order shape of the header, shape of the token,
\* signature, expiry, and no field of the payload is read before the
\* signature has verified: a failed header test is answered before anything
\* else, text that is no token is reported as such, a token of three
\* segments whose signature does not verify is reported for its signature
\* whatever its payload holds (expired or not, parsable or not), and an
\* expiry is only ever reported for a token whose signature verified.
C10_SignatureBeforeExpiry ==
    IsProtected /\ last.header.present =>
        /\ ~StartsWithBearer(last.header) => last.res.attempts[1] = R403
        /\ Len(last.header.parts) >= 2 =>
              LET t == last.header.parts[2] IN
              /\ t.kind = "raw" =>
                    \/ Caught(last, "JsonWebTokenError", "jwt malformed")
                    \/ Caught(last, "JsonWebTokenError", "jwt must be provided")
              /\ t.kind = "jwt" /\ ~SignedByKey(t) =>
                    \/ Caught(last, "JsonWebTokenError", "invalid signature")
                    \/ Caught(last, "JsonWebTokenError",
                              "jwt signature is required")
              /\ Caught(last, "TokenExpiredError", "jwt expired")
                    => SignedByKey(t) /\ last.at >= t.payload.exp

----------------------------------------------------------------------------
\* C11: no response carries a password or a password hash: the user object
\* of a signup response holds the record's id, username and email only.
C11_NoPasswordInResponses ==
    last.pc = "done" =>
        \A u \in Sent(last).body.user : DOMAIN u = {"id", "username", "email"}

\* C12: every user record holds a salted hash (a salt and the hashed value,
\* not the presented string) against which the password presented at its
\* signup verifies, and a signin that found a record answers 200 exactly
\* when the presented password verifies against that record's hash.
C12_HashStoredAndVerified ==
    /\ \A u \in users :
          /\ DOMAIN u.password = {"salt", "of"}
          /\ u.password.salt \in Salts
    /\ last.op = "signup" =>
          \A u \in last.created :
              /\ u \in users
              /\ compareSync(last.body.password, u.password)
    /\ last.op = "signin" /\ Sent(last).status # 500 =>
          (Sent(last).status = 200 <=>
              \E u \in last.isUser : compareSync(last.body.password, u.password))

C12_Witness ==
    /\ last.op = "signin"
    /\ Sent(last).status = 400
    /\ last.isUser # {}
    /\ \A u \in last.isUser : u.password.of # last.body.password

\* C13: every token a signin returns carries iat = the time of the response
\* and exp = iat + 3600 seconds, and so does every token clients hold.
C13_OneHourLifetime ==
    /\ last.op = "signin" /\ Sent(last).status = 200 =>
          /\ Cardinality(Sent(last).body.accessToken) = 1
          /\ \A t \in Sent(last).body.accessToken :
                /\ t.payload.iat = last.at
                /\ t.payload.exp = last.at + 3600
    /\ \A t \in issued : t.payload.exp = t.payload.iat + 3600

C13_Witness ==
    /\ last.op = "signin"
    /\ Sent(last).status = 200
    /\ last.at > 0
    /\ Sent(last).body.accessToken \subseteq issued

\* C14: the user store only grows: every record of the table is still in
\* the table, with the same id, username, email and password hash, after
\* any step of any signup, signin or /protected request.
C14_StoreOnlyGrows == [][users \subseteq users']_vars

C14_Witness ==
    /\ Cardinality(users) = 2
    /\ \E u \in users : u.id = 1
    /\ last.op = "signup"
    /\ \A u \in last.created : u.id = 2

\* C15: signin and /protected leave the user table unchanged, and the table
\* is the only thing the server keeps: the table changes only in the create
\* step of a signup, by the one record that signup created, and a token
\* that was issued is in no record of the table.
C15_SigninAndAdmitPersistNothing ==
    /\ [](\A u \in users : DOMAIN u = {"id", "username", "email", "password"})
    /\ [][/\ last'.op \in {"signin", "protected"} /\ last' # last
                => users' = users
          /\ users' # users =>
                \E s \in Slots :
                    /\ reqs[s].pc = "create"
                    /\ reqs'[s].pc = "answer"
                    /\ Cardinality(reqs'[s].created) = 1
                    /\ users' = users \cup reqs'[s].created]_vars

C15_Witness ==
    /\ IsProtected
    /\ Accepted(last)
    /\ issued # {}
    /\ users # {}

\* C16: a token that a signin issued is accepted (next() is called, 200,
\* req.user carries the token's email) by authMiddleware at every instant
\* before its exp, in every state the server can be in, whatever the user
\* table holds and whatever requests completed or are in flight.
C16_IssuedAdmittedUntilExpiry ==
    /\ \A t \in issued :
          clock < t.payload.exp =>
              LET a == authMiddleware(Header(<<"Bearer", t>>), clock) IN
              /\ a.next
              /\ a.res.sent[1].status = 200
              /\ \A p \in a.user : p.email = t.payload.email
    /\ IsProtected /\ StartsWithBearer(last.header)
                   /\ last.header.parts[2] \in issued
                   /\ last.at < last.header.parts[2].payload.exp
          => /\ Accepted(last)
             /\ \A p \in last.user : p.email = last.header.parts[2].payload.email

C16_Witness ==
    /\ IsProtected
    /\ StartsWithBearer(last.header)
    /\ last.header.parts[2] \in issued
    /\ last.at > last.header.parts[2].payload.iat + 1
    /\ last.at < last.header.parts[2].payload.exp
    /\ Accepted(last)
    /\ users # {}

\* A step in which the handler meets the error the database threw: at the
\* findOne of a signup or of a signin, or resuming from the create of a signup
StoreFails ==
    \/ \E s \in Slots, body \in Bodies :
          SignupFindOne(s, body, FALSE) \/ SigninFindOne(s, body, FALSE)
    \/ \E s \in Slots : reqs[s].pc = "answer" /\ reqs[s].created = {} /\ SignupRespond(s)

\* C17: when the database throws during signup or signin, the request is
\* answered 500 with the catch block's message, which is none of the 400
\* answers for an existing user, an unknown user or a wrong password; the
\* response carries no token, no token is issued, no record is created.
C17_StoreFailureIsServerFault ==
    /\ [][StoreFails =>
         /\ last'.pc = "done"
         /\ last'.res.attempts = last'.res.sent
         /\ Sent(last').status = 500
         /\ Sent(last').body.message \in {<<"Create user Error">>, <<"Login user Error">>}
         /\ Sent(last').body.accessToken = {}
         /\ Sent(last').body.user = {}
         /\ issued' = issued
         /\ users' = users]_vars
    /\ [][(\E s \in Slots, salt \in Salts : SignupCreate(s, salt, FALSE))
            => users' = users /\ issued' = issued]_vars

C17_Witness ==
    /\ last.op = "signin"
    /\ last.registered
    /\ Sent(last) = [status |-> 500, body |-> Body(<<"Login user Error">>, {}, {})]
    /\ last.body.email \notin { t.payload.email : t \in issued }

\* C18: every admission failure named by the claim (missing header, wrong
\* scheme prefix, invalid signature, expired token) gets the response that
\* a missing header gets: same status, same message.
C18_AdmissionFailuresAlike ==
    IsProtected /\ (\/ ~StartsWithBearer(last.header)
                    \/ Caught(last, "JsonWebTokenError", "invalid signature")
                    \/ Caught(last, "TokenExpiredError", "jwt expired"))
        => Sent(last) = R403

\* C19: signin and /protected requests do not interfere. A step of one
\* request leaves the record of every other request in flight as it was;
\* the rows a signin works on are the ones its own findOne read; the
\* response of a signin is the function of its own body, those rows and the
\* clock, its token carries its own email; the response of /protected is the
\* function of its own header and the clock; none of them writes the table.
C19_SigninAndAdmitIndependent ==
    [][/\ \A s, q \in Slots : s # q /\ reqs'[s] # reqs[s] => reqs'[q] = reqs[q]
       /\ \A s \in Slots :
             /\ reqs'[s] # reqs[s] /\ reqs'[s].pc = "respond" =>
                   reqs'[s].isUser \in findOne(reqs'[s].body.email)
             /\ reqs[s].pc = "respond" /\ reqs'[s] # reqs[s] =>
                   /\ reqs'[s] = Idle
                   /\ last'.op = "signin"
                   /\ last'.body = reqs[s].body
                   /\ last'.isUser = reqs[s].isUser
                   /\ last'.res = SigninResult(reqs[s].body.email,
                                     reqs[s].body.password, reqs[s].isUser, clock)
                   /\ \A t \in Sent(last').body.accessToken :
                         t.payload.email = reqs[s].body.email
                   /\ users' = users
       /\ last'.op = "protected" /\ last' # last =>
             /\ last'.res = authMiddleware(last'.header, clock).res
             /\ last'.next = authMiddleware(last'.header, clock).next
             /\ last'.user = authMiddleware(last'.header, clock).user
             /\ reqs' = reqs
             /\ users' = users]_vars

C19_Witness ==
    /\ last.op = "signin"
    /\ Sent(last).status = 200
    /\ \E q \in Slots : /\ reqs[q].pc = "respond"
                        /\ reqs[q].op = "signin"
                        /\ reqs[q].body.email # last.body.email

\* C20: loginSuccess({token, email}) dispatched in any state of the slice
\* leaves token = payload.token, user = {email: payload.email},
\* isAuthenticated = true, loading = false, error = null, and a 'token'
\* cookie from which getCookie reads payload.token back.
C20_LoginSuccessSetsSession ==
    [][\A payload \in Payloads :
          loginSuccess(payload) =>
              /\ auth'.token = {payload.token}
              /\ auth'.user = {[email |-> payload.email]}
              /\ auth'.isAuthenticated = TRUE
              /\ auth'.loading = FALSE
              /\ auth'.error = {}
              /\ getCookie(cookieJar', "token", clock') = {payload.token}
              /\ Cardinality({ c \in cookieJar' : c.name = "token" }) = 1]_vars

C20_Witness ==
    /\ action.type = "auth/loginSuccess"
    /\ \E prev \in action.prev :
          /\ prev.loading
          /\ prev.token # {}
          /\ prev.token # auth.token
    /\ \E payload \in action.payload :
          /\ payload.token = <<"a", "=", "b">>
          /\ auth.token = {payload.token}
          /\ getCookie(cookieJar, "token", clock) = {payload.token}
    /\ auth.isAuthenticated

\* C21 as stated: loginFailure(message) sets error to the message and
\* loading to false, and user, token and isAuthenticated keep the values
\* they had before the action.
C21_LoginFailureKeepsSession ==
    [][\A message \in FailureMessages :
          loginFailure(message) =>
              /\ auth'.error = {message}
              /\ auth'.loading = FALSE
              /\ auth'.user = auth.user
              /\ auth'.token = auth.token
              /\ auth'.isAuthenticated = auth.isAuthenticated]_vars

\* C21 amended: loginFailure(message) sets error to the message and loading
\* to false, and resets user to null, token to null and isAuthenticated to
\* false whatever they were; it leaves the 'token' cookie as it was.
C21_LoginFailureClearsSession ==
    [][\A message \in FailureMessages :
          loginFailure(message) =>
              /\ auth'.error = {message}
              /\ auth'.loading = FALSE
              /\ auth'.user = {}
              /\ auth'.token = {}
              /\ auth'.isAuthenticated = FALSE
              /\ cookieJar' = cookieJar]_vars

C21_Witness ==
    /\ action.type = "auth/loginFailure"
    /\ \E prev \in action.prev :
          /\ prev.user # {}
          /\ prev.token # {}
          /\ prev.isAuthenticated
    /\ auth.user = {}
    /\ auth.token = {}
    /\ ~auth.isAuthenticated
    /\ auth.error # {}

\* No Authorization header on a request built now
NoAuthorization == getHeaders(cookieJar, clock).Authorization = {}

\* C22: logout, in any state of the slice, leaves user = null, token = null,
\* isAuthenticated = false and no 'token' cookie; and once getHeaders builds
\* no Authorization header, it builds none until a loginSuccess.
C22_LogoutEndsSession ==
    [][/\ logout =>
             /\ auth'.user = {}
             /\ auth'.token = {}
             /\ auth'.isAuthenticated = FALSE
             /\ { c \in cookieJar' : c.name = "token" } = {}
             /\ getHeaders(cookieJar', clock').Authorization = {}
       /\ NoAuthorization /\ ~(\E payload \in Payloads : loginSuccess(payload))
             => getHeaders(cookieJar', clock').Authorization = {}]_vars

C22_Witness ==
    /\ action.type = "auth/logout"
    /\ \E prev \in action.prev :
          /\ prev.token # {}
          /\ prev.isAuthenticated
          /\ prev.loading
    /\ auth.token = {}
    /\ cookieJar = {}
    /\ NoAuthorization
    /\ ticks = 0

\* C23: ProtectedRoute renders its children only when isAuthenticated is
\* true and loading is false; with loading false and isAuthenticated false
\* it redirects to /login; while loading is true it never redirects.
C23_ProtectedRouteGuards ==
    /\ ProtectedRoute(auth) = "children" => auth.isAuthenticated /\ ~auth.loading
    /\ ~auth.loading /\ ~auth.isAuthenticated
          => ProtectedRoute(auth) = "Navigate to /login"
    /\ auth.loading => ProtectedRoute(auth) # "Navigate to /login"

C23_Witness ==
    /\ auth.loading
    /\ ~auth.isAuthenticated
    /\ action.type = "auth/loginStart"
    /\ ProtectedRoute(auth) = "Cargando..."

\* C24: in every state of the Redux slice and in every state of the Context
\* provider, isAuthenticated is true exactly when token is not null.
C24_AuthenticatedIffToken ==
    /\ app = "redux" => (auth.isAuthenticated <=> auth.token # {})
    /\ app = "context" => (UserProviderValue(ctx).isAuthenticated <=> ctx.token # {})

C24_Witness ==
    /\ app = "context"
    /\ ctx.token # {}
    /\ ctx.user # {}
    /\ ~ctx.effect
    /\ UserProviderValue(ctx).isAuthenticated
    /\ getCookie(cookieJar, "token", clock) = ctx.token

\* A step of Register.handleSubmit: the submit, or the end of its request
RegisterStep ==
    \/ RegisterSubmit
    \/ \E i \in 1..MaxCalls, outcome \in SignupOutcomes : SignupSettles(i, outcome)

\* C25: a signup submitted from the Register page, succeeding or failing,
\* leaves the Redux auth slice and the 'token' cookie unchanged; when it
\* succeeds the page navigates to /login.
C25_RegisterLeavesAuthAlone ==
    [][/\ RegisterStep => auth' = auth /\ cookieJar' = cookieJar
       /\ \A i \in 1..MaxCalls, outcome \in SignupOutcomes :
             SignupSettles(i, outcome) =>
                 IF outcome.kind = "data"
                 THEN location' = "/login"
                 ELSE location' = location]_vars

C25_Witness ==
    /\ location = "/register"
    /\ register = [error |-> "Users exists!", loading |-> FALSE]
    /\ auth.isAuthenticated
    /\ auth.user # {}
    /\ getCookie(cookieJar, "token", clock) = auth.token

\* The handleSubmit calls of the Login page awaiting their request
LoginCalls == { i \in 1..Len(calls) : calls[i].form = "login" }

\* C28: in the login flow a loginStart is dispatched together with one
\* signin request; when that request settles exactly one of loginSuccess and
\* loginFailure is dispatched, which ends loading; so loading, once true,
\* becomes false again.
C28_LoginStartSettles ==
    /\ auth.loading ~> ~auth.loading
    /\ [](auth.loading => Cardinality(LoginCalls) = 1)
    /\ [][/\ (\E email \in Emails : LoginSubmit(email)) =>
                /\ action'.type = "auth/loginStart"
                /\ auth'.loading
                /\ Len(calls') = Len(calls) + 1
          /\ (\E i \in 1..MaxCalls, outcome \in SigninOutcomes :
                  SigninSettles(i, outcome)) =>
                /\ action' # action
                /\ action'.type \in {"auth/loginSuccess", "auth/loginFailure"}
                /\ action'.prev = {auth}
                /\ ~auth'.loading
                /\ Len(calls') = Len(calls) - 1
          /\ action' # action /\ action'.type \in {"auth/loginSuccess", "auth/loginFailure"}
                => auth.loading /\ Len(calls') = Len(calls) - 1]_vars

C28_Witness ==
    /\ action.type = "auth/loginFailure"
    /\ action.payload = {[message |-> "Error al iniciar sesión"]}
    /\ \E prev \in action.prev : prev.loading
    /\ ~auth.loading
    /\ LoginCalls = {}

\* C26: loginStart sets loading = true and error = null and leaves user,
\* token, isAuthenticated and the 'token' cookie unchanged.
C26_LoginStartFrame ==
    [][loginStart =>
          /\ auth'.loading = TRUE
          /\ auth'.error = {}
          /\ auth'.user = auth.user
          /\ auth'.token = auth.token
          /\ auth'.isAuthenticated = auth.isAuthenticated
          /\ cookieJar' = cookieJar]_vars

C26_Witness ==
    /\ action.type = "auth/loginStart"
    /\ \E prev \in action.prev :
          /\ ~prev.loading
          /\ prev.user # {}
          /\ prev.user = auth.user
          /\ prev.token = auth.token
    /\ auth.loading
    /\ auth.isAuthenticated
    /\ getCookie(cookieJar, "token", clock) = auth.token

\* The 'token' cookies that document.cookie shows now
TokenCookies == { c \in cookieJar : c.name = "token" /\ clock < c.expires }

\* C27: the headers getHeaders builds carry Authorization exactly when a
\* 'token' cookie exists, and then its value is "Bearer " followed by the
\* cookie's (decoded) value; with no cookie there is no Authorization.
C27_BearerFromCookie ==
    /\ Cardinality(TokenCookies) <= 1
    /\ getHeaders(cookieJar, clock).ContentType = "application/json"
    /\ getHeaders(cookieJar, clock).Authorization =
          { <<"Bearer ">> \o decodeURIComponent(c.value) : c \in TokenCookies }
    /\ \A c \in TokenCookies :
          \E t \in Tokens : /\ c.value = encodeURIComponent(t)
                            /\ decodeURIComponent(c.value) = t

C27_Witness ==
    /\ \E c \in TokenCookies : c.value = <<"a", "%", "3", "D", "b">>
    /\ getHeaders(cookieJar, clock).Authorization = {<<"Bearer ", "a", "=", "b">>}
    /\ ticks > 0

\* C29: for every GET /protected request the middleware and the handler
\* together call res.status().json() once: no second status and body is
\* written for the request.
C29_ExactlyOneResponse ==
    IsProtected =>
        /\ Len(last.res.attempts) = 1
        /\ ~last.res.threw

\* C30: when the /protected handler runs, req.user is the payload of the
\* token in the header, that token verified under the signing key and was
\* not expired, it is a token an earlier successful signin issued, and the
\* email the handler writes in its message is that token's email.
C30_HandlerSeesVerifiedClaim ==
    IsProtected /\ last.next =>
        /\ Len(last.header.parts) >= 2
        /\ LET t == last.header.parts[2] IN
           /\ SignedByKey(t)
           /\ last.at < t.payload.exp
           /\ t \in issued
           /\ last.user = {t.payload}
           /\ last.res.attempts[Len(last.res.attempts)] =
                 [status |-> 200,
                  body |-> Body(<<"Has entrado en ruta privada! y tu email es: ",
                                  t.payload.email>>, {}, {})]
           /\ \E u \in users : u.email = t.payload.email

C30_Witness ==
    /\ IsProtected
    /\ last.next
    /\ ~StartsWithBearer(last.header)
    /\ Sent(last) = R403
    /\ last.user # {}
    /\ last.header.parts[2] \in issued

\* C31: after every action of the Redux slice the 'token' cookie and the
\* store agree: getCookie('token') is null exactly when state.token is null,
\* and otherwise returns state.token.
C31_CookieAgreesWithStore ==
    [][app = "redux" /\ action' # action /\ action'.type # "@@INIT"
          => getCookie(cookieJar', "token", clock') = auth'.token]_vars

\* C33: in every state of the auth store of either frontend, isAuthenticated
\* = true implies that user is not null.
C33_AuthenticatedHasUser ==
    /\ app = "redux" => (auth.isAuthenticated => auth.user # {})
    /\ app = "context" => (UserProviderValue(ctx).isAuthenticated => ctx.user # {})


\* C32: in the Context provider a login or logout that changes the token
\* schedules the effect, the effect leads to a state where the 'token' cookie
\* matches the token state (the token when it is non-null, no cookie when it is
\* null), and once the effect of a logout has run the headers of a protected
\* request carry no Authorization.
C32_CookieFollowsToken ==
    /\ [][ctx'.token # ctx.token /\ action' # action => ctx'.effect]_vars
    /\ (ctx.effect ~> (~ctx.effect /\ getCookie(cookieJar, "token", clock) = ctx.token))
    /\ [][UserProvider_useEffect
            => IF ctx.token # {}
               THEN getCookie(cookieJar', "token", clock') = ctx.token
               ELSE { c \in cookieJar' : c.name = "token" } = {}]_vars
    /\ [](ctx.token = {} /\ ~ctx.effect
            => getHeaders(cookieJar, clock).Authorization = {})

C32_Witness ==
    /\ app = "context"
    /\ action.type = "UserProvider/logout"
    /\ \E prev \in action.prev : prev.token # {} /\ prev.user # {}
    /\ ctx.token = {}
    /\ ~ctx.effect
    /\ TokenCookies = {}
    /\ getHeaders(cookieJar, clock).Authorization = {}

\* C34: whenever the Redux frontend holds a 'token' cookie and is
\* authenticated, the token of the cookie is one the backend admits: it
\* verifies at that time, and the GET /protected the Dashboard sends with it
\* is answered by the protected handler.
C34_SessionWithinToken ==
    /\ [](auth.isAuthenticated /\ TokenCookies # {}
            => authMiddleware(RequestHeader(getHeaders(cookieJar, clock)), clock).next)
    /\ [][\A k \in 1..MaxRequests :
            /\ getProtectedArrives(k)
            /\ auth.isAuthenticated
            /\ TokenCookies # {}
            /\ wire[k].headers = getHeaders(cookieJar, clock)
            => Accepted(last')]_vars

========================================================================
